---- MODULE Spec2Model ----
(***************************************************************************)
(* B-spline evaluation engine of ezdxf (ezdxf/algebra/spline.py): knot     *)
(* vector builders, Cox-de Boor basis recursion, curve points, the         *)
(* derivative and the rational variants.                                   *)
(*                                                                         *)
(* Numbers are exact rationals <<numerator, denominator>> in lowest terms  *)
(* with a positive denominator; <<0, 0>> is the outcome of a division by   *)
(* zero (Python raises ZeroDivisionError there).  Python lists are         *)
(* functions over 0..len-1, so every index of the source is kept.          *)
(***************************************************************************)
EXTENDS Integers, Sequences, FiniteSets, TLC

VARIABLES curve, call, gens, text

vars == <<curve, call, gens, text>>

(***************************************************************************)
(* Bounds of the model.                                                    *)
(***************************************************************************)
MaxKnotN == 10
MaxKnotOrder == 6
MaxN == 4
MaxOrder == 3
MaxSeg == 2
MaxClosedN == 7
TDen == 2

(***************************************************************************)
(* Exact arithmetic standing for Python's float operators.                 *)
(***************************************************************************)
Abs(a) == IF a < 0 THEN 0 - a ELSE a

RECURSIVE GCD(_, _)
GCD(a, b) == IF b = 0 THEN a ELSE GCD(b, a % b)

Bad == <<0, 0>>

Norm(n, d) ==
    IF d = 0 THEN Bad
    ELSE LET g == GCD(Abs(n), Abs(d))
             s == IF d < 0 THEN 0 - 1 ELSE 1
         IN  <<(s * n) \div g, (s * d) \div g>>

R(i) == <<i, 1>>

IsBad(a) == a[2] = 0

RNeg(a) == <<0 - a[1], a[2]>>

RAdd(a, b) ==
    IF IsBad(a) \/ IsBad(b) THEN Bad
    ELSE LET l == (a[2] \div GCD(a[2], b[2])) * b[2]
         IN  Norm(a[1] * (l \div a[2]) + b[1] * (l \div b[2]), l)

RSub(a, b) == RAdd(a, RNeg(b))

RMul(a, b) ==
    IF IsBad(a) \/ IsBad(b) THEN Bad
    ELSE LET g1 == GCD(Abs(a[1]), b[2])
             g2 == GCD(Abs(b[1]), a[2])
         IN  Norm((a[1] \div g1) * (b[1] \div g2), (a[2] \div g2) * (b[2] \div g1))

RDiv(a, b) ==
    IF IsBad(a) \/ IsBad(b) \/ b[1] = 0 THEN Bad
    ELSE RMul(a, IF b[1] < 0 THEN <<0 - b[2], 0 - b[1]>> ELSE <<b[2], b[1]>>)

RLess(a, b) == a[1] * b[2] < b[1] * a[2]

RLeq(a, b) == a[1] * b[2] <= b[1] * a[2]

(***************************************************************************)
(* Python lists.                                                           *)
(***************************************************************************)
Len0(x) == Cardinality(DOMAIN x)

PyList(s) == [i \in 0..(Len(s) - 1) |-> s[i + 1]]

Append0(x, v) == [i \in 0..Len0(x) |-> IF i < Len0(x) THEN x[i] ELSE v]

RECURSIVE SumTo(_, _, _)
SumTo(f, lo, hi) == IF lo > hi THEN R(0) ELSE RAdd(SumTo(f, lo, hi - 1), f[hi])

(***************************************************************************)
(* one_based_array: a list with a 0.0 placed in front of the values.       *)
(* The decor argument is applied to the values by the caller.               *)
(***************************************************************************)
one_based_array(decorated) == PyList(<<R(0)>> \o decorated)

(***************************************************************************)
(* Vector: a 2D or 3D coordinate tuple becomes a 3D vector (z = 0).        *)
(* float: the conversion applied to each weight.                           *)
(***************************************************************************)
Vector(p) == <<R(p[1]), R(p[2]), IF Len(p) >= 3 THEN R(p[3]) ELSE R(0)>>

float(w) == R(w)

(***************************************************************************)
(* knot_open_uniform: the loop over i = 2..nplusc appends to x.            *)
(***************************************************************************)
RECURSIVE knot_open_uniform_loop_le(_, _, _, _)
knot_open_uniform_loop_le(x, i, n, order) ==
    IF i > n + order THEN x
    ELSE knot_open_uniform_loop_le(
             Append0(x, IF (i > order) /\ (i <= n + 2)
                        THEN RAdd(x[i - 1], R(1))
                        ELSE x[i - 1]),
             i + 1, n, order)

RECURSIVE knot_open_uniform_loop(_, _, _, _)
knot_open_uniform_loop(x, i, n, order) ==
    IF i > n + order THEN x
    ELSE knot_open_uniform_loop(
             Append0(x, IF (i > order) /\ (i < n + 2)
                        THEN RAdd(x[i - 1], R(1))
                        ELSE x[i - 1]),
             i + 1, n, order)

knot_open_uniform(n, order) ==
    knot_open_uniform_loop(PyList(<<R(0), R(0)>>), 2, n, order)

(***************************************************************************)
(* knot_uniform: [0.0, 0.0] extended by float(i) for i in range(1, nplusc) *)
(***************************************************************************)
knot_uniform_long(n, order) ==
    LET nplusc == n + order
    IN  PyList(<<R(0), R(0)>> \o [i \in 1..nplusc |-> R(i)])

knot_uniform_from0(n, order) ==
    LET nplusc == n + order
    IN  PyList(<<R(0), R(0)>> \o [i \in 1..(nplusc - 1) |-> R(i - 1)])

knot_uniform(n, order) ==
    LET nplusc == n + order
    IN  PyList(<<R(0), R(0)>> \o [i \in 1..(nplusc - 1) |-> R(i)])

(***************************************************************************)
(* Outcome of a call: a returned value or a raised exception.              *)
(***************************************************************************)
Ok(v) == [status |-> "ok", value |-> v]

Raise(e) == [status |-> e]

(***************************************************************************)
(* distance: the Euclidean distance of two vectors.  The inputs of the     *)
(* model keep the squared distance a perfect square.                       *)
(***************************************************************************)
ISqrt(m) == CHOOSE r \in 0..m : r * r = m

Square(a) == RMul(a, a)

distance(p, q) ==
    LET d2 == RAdd(RAdd(Square(RSub(p[1], q[1])), Square(RSub(p[2], q[2]))),
                   Square(RSub(p[3], q[3])))
    IN  R(ISqrt(d2[1]))

(***************************************************************************)
(* knot_closed: control_points is a 1-based array.  spacing[i] beyond the  *)
(* list is an IndexError, a division by maxc = 0.0 a ZeroDivisionError.    *)
(***************************************************************************)
RECURSIVE knot_closed_loop(_, _, _, _, _, _)
knot_closed_loop(x, i, n, order, spacing, maxc) ==
    IF i > n - order + 1
    THEN Ok(PyList([j \in 1..Len0(x) |-> x[j - 1]] \o
                   [j \in 1..(order - 1) |-> R(n - order + 2)]))
    ELSE LET csum == SumTo(spacing, 0, (IF i < Len0(spacing)
                                       THEN i ELSE Len0(spacing)) - 1)
         IN  IF i >= Len0(spacing) THEN Raise("IndexError")
             ELSE LET numerator ==
                          RAdd(RMul(RDiv(R(i), R(n - order + 2)), spacing[i]),
                               csum)
                      v == RMul(RDiv(numerator, maxc), R(n - order + 2))
                  IN  IF IsBad(v) THEN Raise("ZeroDivisionError")
                      ELSE knot_closed_loop(Append0(x, v), i + 1, n, order,
                                            spacing, maxc)

knot_closed(control_points, order) ==
    LET n == Len0(control_points) - 1
        spacing == PyList([j \in 1..(n - 1) |->
                             distance(control_points[j], control_points[j + 1])])
        maxc == SumTo(spacing, 0, Len0(spacing) - 1)
    IN  knot_closed_loop([j \in 0..order |-> R(0)], 1, n, order, spacing, maxc)

Kinds == {"BSpline", "BSplineU", "DBSpline", "DBSplineU", "RBSpline", "RBSplineU"}

IsUniform(kind) == kind \in {"BSplineU", "DBSplineU", "RBSplineU"}

IsDerivative(kind) == kind \in {"DBSpline", "DBSplineU"}

IsRational(kind) == kind \in {"RBSpline", "RBSplineU"}

(***************************************************************************)
(* BSpline._knots and its override BSplineU._knots.                        *)
(***************************************************************************)
BSpline_knots(kind, cp_count, order) ==
    IF IsUniform(kind) THEN knot_uniform(cp_count, order)
    ELSE knot_open_uniform(cp_count, order)

(***************************************************************************)
(* BSpline.__init__ (knots = None).                                        *)
(***************************************************************************)
BSpline_init(kind, control_points, order) ==
    [kind |-> kind,
     control_points |->
         one_based_array([i \in 1..Len(control_points) |->
                             Vector(control_points[i])]),
     cp_count |-> Len(control_points),
     order |-> order,
     nplusc |-> Len(control_points) + order,
     knots |-> BSpline_knots(kind, Len(control_points), order)]

(***************************************************************************)
(* BSpline.__init__ with a knots argument: the list is stored as it is.    *)
(***************************************************************************)
BSpline_init_knots(kind, control_points, order, knots) ==
    [kind |-> kind,
     control_points |->
         one_based_array([i \in 1..Len(control_points) |->
                             Vector(control_points[i])]),
     cp_count |-> Len(control_points),
     order |-> order,
     nplusc |-> Len(control_points) + order,
     knots |-> knots]

(***************************************************************************)
(* RBSpline.__init__ checks the two lengths, RBSplineU.__init__ does not.  *)
(***************************************************************************)
WithWeights(c, weights) ==
    [kind |-> c.kind, control_points |-> c.control_points,
     cp_count |-> c.cp_count, order |-> c.order, nplusc |-> c.nplusc,
     knots |-> c.knots,
     weights |-> one_based_array([i \in 1..Len(weights) |-> float(weights[i])])]

RBSpline_init(control_points, weights, order) ==
    IF Len(control_points) # Len(weights) THEN Raise("ValueError")
    ELSE Ok(WithWeights(BSpline_init("RBSpline", control_points, order), weights))

RBSplineU_init(control_points, weights, order) ==
    Ok(WithWeights(BSpline_init("RBSplineU", control_points, order), weights))

(***************************************************************************)
(* max_t property: BSpline.max_t, overridden by BSplineU.max_t.            *)
(***************************************************************************)
max_t(c) == IF IsUniform(c.kind) THEN R(c.cp_count) ELSE c.knots[c.nplusc]

(***************************************************************************)
(* create_nbasis: the first order basis functions.                         *)
(***************************************************************************)
create_nbasis_closed(c, t) ==
    PyList(<<R(0)>> \o
           [i \in 1..(c.nplusc - 1) |->
               IF RLeq(c.knots[i], t) /\ RLeq(t, c.knots[i + 1])
               THEN R(1) ELSE R(0)])

create_nbasis(c, t) ==
    PyList(<<R(0)>> \o
           [i \in 1..(c.nplusc - 1) |->
               IF RLeq(c.knots[i], t) /\ RLess(t, c.knots[i + 1])
               THEN R(1) ELSE R(0)])

(***************************************************************************)
(* BSpline.basis: in-place order elevation, k = 2..order, i = 1..nplusc-k, *)
(* then the fix-up at the last knot.  A division by zero ends the call.    *)
(***************************************************************************)
RECURSIVE basis_loop_descending(_, _, _, _, _)
basis_loop_descending(c, t, nbasis, k, i) ==
    IF k > c.order THEN Ok(nbasis)
    ELSE IF i > c.nplusc - k THEN basis_loop_descending(c, t, nbasis, k + 1, 1)
    ELSE LET knots == c.knots
             j == c.nplusc - k + 1 - i
             d == IF nbasis[j] # R(0)
                  THEN RDiv(RMul(RSub(t, knots[j]), nbasis[j]),
                            RSub(knots[j + k - 1], knots[j]))
                  ELSE R(0)
             e == IF nbasis[j + 1] # R(0)
                  THEN RDiv(RMul(RSub(knots[j + k], t), nbasis[j + 1]),
                            RSub(knots[j + k], knots[j + 1]))
                  ELSE R(0)
         IN  IF IsBad(d) \/ IsBad(e) THEN Raise("ZeroDivisionError")
             ELSE basis_loop_descending(c, t, [nbasis EXCEPT ![j] = RAdd(d, e)],
                                        k, i + 1)

RECURSIVE basis_loop(_, _, _, _, _)
basis_loop(c, t, nbasis, k, i) ==
    IF k > c.order THEN Ok(nbasis)
    ELSE IF i > c.nplusc - k THEN basis_loop(c, t, nbasis, k + 1, 1)
    ELSE LET knots == c.knots
             d == IF nbasis[i] # R(0)
                  THEN RDiv(RMul(RSub(t, knots[i]), nbasis[i]),
                            RSub(knots[i + k - 1], knots[i]))
                  ELSE R(0)
             e == IF nbasis[i + 1] # R(0)
                  THEN RDiv(RMul(RSub(knots[i + k], t), nbasis[i + 1]),
                            RSub(knots[i + k], knots[i + 1]))
                  ELSE R(0)
         IN  IF IsBad(d) \/ IsBad(e) THEN Raise("ZeroDivisionError")
             ELSE basis_loop(c, t, [nbasis EXCEPT ![i] = RAdd(d, e)], k, i + 1)

BSpline_basis_nofix(c, t) ==
    basis_loop(c, t, create_nbasis(c, t), 2, 1)

BSpline_basis(c, t) ==
    LET r == basis_loop(c, t, create_nbasis(c, t), 2, 1)
    IN  IF r.status # "ok" THEN r
        ELSE IF t = c.knots[c.nplusc]
             THEN Ok([r.value EXCEPT ![c.cp_count] = R(1)])
             ELSE r

(***************************************************************************)
(* weighting: the rational basis; weights[i] beyond the list is an         *)
(* IndexError.                                                             *)
(***************************************************************************)
weighting_noguard(nbasis, weights, npts) ==
    IF Len0(weights) <= npts THEN Raise("IndexError")
    ELSE LET prod == [i \in 1..npts |-> RMul(nbasis[i], weights[i])]
             s == SumTo(prod, 1, npts)
         IN  Ok(PyList(<<R(0)>> \o [i \in 1..npts |-> RDiv(prod[i], s)]))

weighting_unnormalised(nbasis, weights, npts) ==
    IF Len0(weights) <= npts THEN Raise("IndexError")
    ELSE LET prod == [i \in 1..npts |-> RMul(nbasis[i], weights[i])]
             s == SumTo(prod, 1, npts)
         IN  IF s = R(0) THEN Ok([i \in 0..npts |-> R(0)])
             ELSE Ok(PyList(<<R(0)>> \o [i \in 1..npts |-> prod[i]]))

weighting(nbasis, weights, npts) ==
    IF Len0(weights) <= npts THEN Raise("IndexError")
    ELSE LET prod == [i \in 1..npts |-> RMul(nbasis[i], weights[i])]
             s == SumTo(prod, 1, npts)
         IN  IF s = R(0) THEN Ok([i \in 0..npts |-> R(0)])
             ELSE Ok(PyList(<<R(0)>> \o [i \in 1..npts |-> RDiv(prod[i], s)]))

(***************************************************************************)
(* basis as the class of the curve resolves it.                            *)
(***************************************************************************)
basis(c, t) ==
    LET r == BSpline_basis(c, t)
    IN  IF IsRational(c.kind) /\ r.status = "ok"
        THEN weighting(r.value, c.weights, c.cp_count)
        ELSE r

(***************************************************************************)
(* create_nbasis2 of DBSpline and of DBSplineU.                            *)
(***************************************************************************)
create_nbasis2_nofix(c, t) == create_nbasis(c, t)

create_nbasis2_keep(c, t) ==
    LET nbasis == create_nbasis(c, t)
        npts == c.cp_count
    IN  IF c.kind = "DBSplineU"
        THEN IF t = c.knots[npts + 1]
             THEN [nbasis EXCEPT ![npts] = R(1)]
             ELSE nbasis
        ELSE IF t = c.knots[c.nplusc]
             THEN [nbasis EXCEPT ![npts] = R(1)]
             ELSE nbasis

create_nbasis2(c, t) ==
    LET nbasis == create_nbasis(c, t)
        npts == c.cp_count
    IN  IF c.kind = "DBSplineU"
        THEN IF t = c.knots[npts + 1]
             THEN [nbasis EXCEPT ![npts] = R(1), ![npts + 1] = R(0)]
             ELSE nbasis
        ELSE IF t = c.knots[c.nplusc]
             THEN [nbasis EXCEPT ![npts] = R(1)]
             ELSE nbasis

(***************************************************************************)
(* DBSplineMixin.dbasis: value, first and second derivative in one pass.   *)
(***************************************************************************)
Guard(x, v) == IF x # R(0) THEN v ELSE R(0)

RECURSIVE dbasis_loop(_, _, _, _, _, _, _)
dbasis_loop(c, t, nbasis, d1nbasis, d2nbasis, k, i) ==
    IF k > c.order THEN Ok(<<nbasis, d1nbasis, d2nbasis>>)
    ELSE IF i > c.nplusc - k
         THEN dbasis_loop(c, t, nbasis, d1nbasis, d2nbasis, k + 1, 1)
    ELSE LET knots == c.knots
             w1 == RSub(knots[i + k - 1], knots[i])
             w2 == RSub(knots[i + k], knots[i + 1])
             tl == RSub(t, knots[i])
             tr == RSub(knots[i + k], t)
             b1 == Guard(nbasis[i], RDiv(RMul(tl, nbasis[i]), w1))
             b2 == Guard(nbasis[i + 1], RDiv(RMul(tr, nbasis[i + 1]), w2))
             f1 == Guard(nbasis[i], RDiv(nbasis[i], w1))
             f2 == Guard(nbasis[i + 1], RDiv(RNeg(nbasis[i + 1]), w2))
             f3 == Guard(d1nbasis[i], RDiv(RMul(tl, d1nbasis[i]), w1))
             f4 == Guard(d1nbasis[i + 1], RDiv(RMul(tr, d1nbasis[i + 1]), w2))
             s1 == Guard(d1nbasis[i], RDiv(RMul(R(2), d1nbasis[i]), w1))
             s2 == Guard(d1nbasis[i + 1], RDiv(RMul(R(0 - 2), d1nbasis[i + 1]), w2))
             s3 == Guard(d2nbasis[i], RDiv(RMul(tl, d2nbasis[i]), w1))
             s4 == Guard(d2nbasis[i + 1], RDiv(RMul(tr, d2nbasis[i + 1]), w2))
         IN  IF \E x \in {b1, b2, f1, f2, f3, f4, s1, s2, s3, s4} : IsBad(x)
             THEN Raise("ZeroDivisionError")
             ELSE dbasis_loop(c, t,
                      [nbasis EXCEPT ![i] = RAdd(b1, b2)],
                      [d1nbasis EXCEPT ![i] = RAdd(RAdd(RAdd(f1, f2), f3), f4)],
                      [d2nbasis EXCEPT ![i] = RAdd(RAdd(RAdd(s1, s2), s3), s4)],
                      k, i + 1)

dbasis(c, t) ==
    LET zeros == [i \in 0..c.nplusc |-> R(0)]
    IN  dbasis_loop(c, t, create_nbasis2(c, t), zeros, zeros, 2, 1)

(***************************************************************************)
(* The snap of point: t = max_t if (max_t - t) < 5e-6.                     *)
(***************************************************************************)
SnapTol == <<1, 200000>>

Snap_le(c, t) == IF RLeq(RSub(max_t(c), t), SnapTol) THEN max_t(c) ELSE t

Snap_abs(c, t) ==
    LET diff == RSub(max_t(c), t)
    IN  IF RLess(diff, SnapTol) /\ RLess(RNeg(diff), SnapTol) THEN max_t(c) ELSE t

Snap_window(c, t) ==
    LET diff == RSub(max_t(c), t)
    IN  IF RLeq(R(0), diff) /\ RLess(diff, SnapTol) THEN max_t(c) ELSE t

Snap(c, t) == IF RLess(RSub(max_t(c), t), SnapTol) THEN max_t(c) ELSE t

(***************************************************************************)
(* point: BSpline.point, and DBSplineMixin.point for the derivative        *)
(* classes, which returns (point, d1, d2).                                 *)
(***************************************************************************)
AxisValue_short(c, nb, axis) ==
    SumTo([i \in 1..c.cp_count |-> RMul(nb[i], c.control_points[i][axis])],
          1, c.cp_count - 1)

AxisValue(c, nb, axis) ==
    SumTo([i \in 1..c.cp_count |-> RMul(nb[i], c.control_points[i][axis])],
          1, c.cp_count)

Combine(c, nb) == <<AxisValue(c, nb, 1), AxisValue(c, nb, 2), AxisValue(c, nb, 3)>>

BSpline_point(c, t) ==
    LET r == basis(c, Snap(c, t))
    IN  IF r.status # "ok" THEN r ELSE Ok(Combine(c, r.value))

DBSplineMixin_point_swapped(c, t) ==
    LET r == dbasis(c, Snap(c, t))
    IN  IF r.status # "ok" THEN r
        ELSE Ok(<<Combine(c, r.value[1]), Combine(c, r.value[3]),
                  Combine(c, r.value[2])>>)

DBSplineMixin_point(c, t) ==
    LET r == dbasis(c, Snap(c, t))
    IN  IF r.status # "ok" THEN r
        ELSE Ok(<<Combine(c, r.value[1]), Combine(c, r.value[2]),
                  Combine(c, r.value[3])>>)

point(c, t) ==
    IF IsDerivative(c.kind) THEN DBSplineMixin_point(c, t) ELSE BSpline_point(c, t)

(***************************************************************************)
(* Inputs: control point sequences, weight sequences, parameters.          *)
(***************************************************************************)
\* One sequence per count, mixing 2D and 3D coordinate tuples.
ControlPointInputs(n) ==
    { [i \in 1..n |-> IF i % 2 = 1 THEN <<i, i * i>>
                                   ELSE <<7 - 2 * i, i, 3 * i>>] }

\* Equal weights, rising weights, zero weights, one weight too few, one too
\* many.
WeightInputs(n) ==
    { [i \in 1..n |-> 2], [i \in 1..n |-> i], [i \in 1..n |-> 0],
      [i \in 1..(n - 1) |-> 1], [i \in 1..(n + 1) |-> 1] }

Grid ==
    UNION { { Norm(j, d) : j \in (0 - d)..(d * (MaxN + 1)) } : d \in 1..TDen }

\* Parameters next to max_t.  Evaluating the basis at such a parameter
\* multiplies order - 1 factors with a denominator of 10^5 or more, which
\* stays in the integer range only for order 2; for higher orders the model
\* draws only the ones that point replaces by max_t before evaluating.
Snapped(c) ==
    { RSub(max_t(c), <<1, 10000000>>), RSub(max_t(c), <<1, 250000>>) }

Unsnapped(c) ==
    { RSub(max_t(c), <<1, 200000>>), RSub(max_t(c), <<1, 100000>>) }

\* A parameter far above max_t.
Above(c) == { RAdd(max_t(c), R(1000)) }

PointParams(c) ==
    Grid \cup Snapped(c) \cup Above(c)
         \cup (IF c.order = 2 THEN Unsnapped(c) ELSE {})

BasisParams(c) ==
    Grid \cup (IF c.order = 2 THEN Snapped(c) \cup Unsnapped(c) ELSE {})

\* Knot lists a caller passes: index 0 unused, knots[1] = 0, every further
\* knot repeats its predecessor or exceeds it by 1.
KnotInputs(n, order) ==
    { PyList(<<R(0)>> \o
             [i \in 1..(n + order) |->
                 R(Cardinality({j \in 2..i : steps[j] = 1}))]) :
        steps \in [2..(n + order) -> {0, 1}] }

NoCurve == [kind |-> "none"]

NoCall == [op |-> "none"]

GenIds == {"g1", "g2"}

NoGen == [state |-> "none"]

NoGens == [g \in GenIds |-> NoGen]

\* A new TEXT entity: halign and valign read as their default 0 until set,
\* insert is (0, 0, 0), align_point is not set.
None == <<>>

NewText == [halign |-> 0, valign |-> 0, insert |-> <<0, 0, 0>>,
            align_point |-> None]

Init ==
    /\ curve = NoCurve
    /\ call = NoCall
    /\ gens = NoGens
    /\ text = NewText

(***************************************************************************)
(* The program is single-threaded: call holds the call that has just       *)
(* completed, with its outcome, until the caller has taken the outcome.    *)
(***************************************************************************)
Return ==
    /\ call # NoCall
    /\ call' = NoCall
    /\ UNCHANGED <<curve, gens, text>>

(***************************************************************************)
(* Calls of the two module-level knot builders.                            *)
(***************************************************************************)
CallKnotOpenUniform ==
    /\ call = NoCall
    /\ \E n \in 1..MaxKnotN, order \in 2..MaxKnotOrder :
          call' = [op |-> "knot_open_uniform", n |-> n, order |-> order,
                   result |-> knot_open_uniform(n, order)]
    /\ UNCHANGED <<curve, gens, text>>

CallKnotUniform ==
    /\ call = NoCall
    /\ \E n \in 1..MaxKnotN, order \in 2..MaxKnotOrder :
          call' = [op |-> "knot_uniform", n |-> n, order |-> order,
                   result |-> knot_uniform(n, order)]
    /\ UNCHANGED <<curve, gens, text>>

\* 1-based control point arrays for knot_closed: growing spacing, spacing
\* alternating between 5 and 2 in three dimensions, spacing alternating
\* between 1 and 0, and n coincident points.
ClosedPointInputs(n) ==
    { one_based_array([i \in 1..n |-> <<R(i * i), R(0), R(0)>>]),
      one_based_array([i \in 1..n |-> <<R(3 * (i \div 2)), R(4 * (i \div 2)),
                                         R(2 * ((i - 1) \div 2))>>]),
      one_based_array([i \in 1..n |-> <<R(i \div 2), R(0), R(0)>>]),
      one_based_array([i \in 1..n |-> <<R(1), R(0), R(0)>>]) }

CallKnotClosed ==
    /\ call = NoCall
    /\ \E n \in 1..MaxClosedN, order \in 2..MaxKnotOrder :
          \E control_points \in ClosedPointInputs(n) :
             LET r == knot_closed(control_points, order)
             IN  call' = [op |-> "knot_closed", n |-> n, order |-> order,
                          control_points |-> control_points,
                          status |-> r.status,
                          result |-> IF r.status = "ok" THEN r.value ELSE <<>>]
    /\ UNCHANGED <<curve, gens, text>>

NextKnots == CallKnotOpenUniform \/ CallKnotUniform \/ CallKnotClosed \/ Return

SpecKnots == Init /\ [][NextKnots]_vars

(***************************************************************************)
(* Construction of a curve.                                                *)
(***************************************************************************)
NewBSpline ==
    /\ call = NoCall
    /\ curve = NoCurve
    /\ \E kind \in {"BSpline", "BSplineU", "DBSpline", "DBSplineU"},
          n \in 1..MaxN, order \in 2..MaxOrder :
          \E cps \in ControlPointInputs(n) :
             /\ curve' = BSpline_init(kind, cps, order)
             /\ call' = [op |-> "init", kind |-> kind, status |-> "ok"]
    /\ UNCHANGED <<gens, text>>

NewRational(kind, r, nw) ==
    /\ curve' = IF r.status = "ok" THEN r.value ELSE NoCurve
    /\ call' = [op |-> "init", kind |-> kind, status |-> r.status,
                cp_count |-> nw[1], weight_count |-> nw[2]]

NewRBSpline ==
    /\ call = NoCall
    /\ curve = NoCurve
    /\ \E n \in 1..MaxN, order \in 2..MaxOrder :
          \E cps \in ControlPointInputs(n), ws \in WeightInputs(n) :
             NewRational("RBSpline", RBSpline_init(cps, ws, order),
                         <<Len(cps), Len(ws)>>)
    /\ UNCHANGED <<gens, text>>

NewRBSplineU ==
    /\ call = NoCall
    /\ curve = NoCurve
    /\ \E n \in 1..MaxN, order \in 2..MaxOrder :
          \E cps \in ControlPointInputs(n), ws \in WeightInputs(n) :
             NewRational("RBSplineU", RBSplineU_init(cps, ws, order),
                         <<Len(cps), Len(ws)>>)
    /\ UNCHANGED <<gens, text>>

(***************************************************************************)
(* Evaluation calls on the curve.                                          *)
(***************************************************************************)
CallPoint ==
    /\ call = NoCall
    /\ curve # NoCurve
    /\ \E t \in PointParams(curve) :
          LET r == point(curve, t)
          IN  call' = [op |-> "point", t |-> t, teval |-> Snap(curve, t),
                       status |-> r.status,
                       value |-> IF r.status = "ok" THEN r.value ELSE <<>>]
    /\ UNCHANGED <<curve, gens, text>>

CallBasis ==
    /\ call = NoCall
    /\ curve # NoCurve
    /\ \E t \in BasisParams(curve) :
          LET r == basis(curve, t)
          IN  call' = [op |-> "basis", t |-> t, status |-> r.status,
                       value |-> IF r.status = "ok" THEN r.value ELSE <<>>]
    /\ UNCHANGED <<curve, gens, text>>

CallDbasis ==
    /\ call = NoCall
    /\ curve # NoCurve
    /\ IsDerivative(curve.kind)
    /\ \E t \in BasisParams(curve) :
          LET r == dbasis(curve, t)
          IN  call' = [op |-> "dbasis", t |-> t, status |-> r.status,
                       value |-> IF r.status = "ok" THEN r.value ELSE <<>>]
    /\ UNCHANGED <<curve, gens, text>>

Next ==
    \/ NewBSpline
    \/ NewRBSpline
    \/ NewRBSplineU
    \/ CallPoint
    \/ CallBasis
    \/ CallDbasis
    \/ Return

Spec == Init /\ [][Next]_vars

(***************************************************************************)
(* Construction with caller-supplied knots (the classes without weights    *)
(* take a knots argument), followed by basis and dbasis calls.             *)
(***************************************************************************)
NewBSplineKnots ==
    /\ call = NoCall
    /\ curve = NoCurve
    /\ \E kind \in {"BSpline", "BSplineU", "DBSpline", "DBSplineU"},
          order \in 2..MaxOrder :
          \E n \in order..MaxOrder :
             \E cps \in ControlPointInputs(n), knots \in KnotInputs(n, order) :
                /\ curve' = BSpline_init_knots(kind, cps, order, knots)
                /\ call' = [op |-> "init", kind |-> kind, status |-> "ok"]
    /\ UNCHANGED <<gens, text>>

NextCustom ==
    \/ NewBSpline
    \/ NewBSplineKnots
    \/ CallBasis
    \/ CallDbasis
    \/ Return

SpecCustom == Init /\ [][NextCustom]_vars

(***************************************************************************)
(* _step_size of BSpline and of BSplineU, and the first parameter of       *)
(* approximate (0 for BSpline, float(order - 1) for BSplineU).             *)
(***************************************************************************)
step_size_open(c, segments) == RDiv(max_t(c), R(segments))

step_size(c, segments) ==
    IF IsUniform(c.kind)
    THEN RDiv(R(c.cp_count - c.order + 1), R(segments))
    ELSE RDiv(max_t(c), R(segments))

approximate_base(c) == IF IsUniform(c.kind) THEN R(c.order - 1) ELSE R(0)

(***************************************************************************)
(* approximate is a generator function: the call only creates the          *)
(* generator; the first next() computes step, every next() runs to the     *)
(* following yield, and the next() after the last yield ends it.           *)
(***************************************************************************)
Approximate(g) ==
    /\ call = NoCall
    /\ curve # NoCurve
    /\ gens[g] = NoGen
    /\ \E segments \in 1..MaxSeg :
          gens' = [gens EXCEPT ![g] =
                      [state |-> "new", segments |-> segments,
                       point_index |-> 0, step |-> R(0),
                       ts |-> <<>>, out |-> <<>>]]
    /\ UNCHANGED <<curve, call, text>>

GenNext_shared(g) ==
    /\ call = NoCall
    /\ gens[g].state \in {"new", "suspended"}
    /\ LET gen == gens[g]
           step == IF gen.state = "new" THEN step_size(curve, gen.segments)
                   ELSE gen.step
           t == RAdd(approximate_base(curve), RMul(R(gen.point_index), step))
           r == point(curve, t)
       IN  gens' = [h \in GenIds |->
              IF h # g
              THEN IF gens[h].state = "suspended" /\ ~IsBad(step)
                      /\ gen.point_index <= gen.segments /\ r.status = "ok"
                   THEN [gens[h] EXCEPT !.point_index = gens[h].point_index + 1]
                   ELSE gens[h]
              ELSE IF IsBad(step)
              THEN [gen EXCEPT !.state = "ZeroDivisionError"]
              ELSE IF gen.point_index > gen.segments
              THEN [gen EXCEPT !.state = "done", !.step = step]
              ELSE IF r.status # "ok"
              THEN [gen EXCEPT !.state = r.status, !.step = step]
              ELSE [gen EXCEPT !.state = "suspended", !.step = step,
                               !.point_index = gen.point_index + 1,
                               !.ts = Append(gen.ts, t),
                               !.out = Append(gen.out, r.value)]]
    /\ UNCHANGED <<curve, call, text>>

GenNext(g) ==
    /\ call = NoCall
    /\ gens[g].state \in {"new", "suspended"}
    /\ LET gen == gens[g]
           step == IF gen.state = "new" THEN step_size(curve, gen.segments)
                   ELSE gen.step
           t == RAdd(approximate_base(curve), RMul(R(gen.point_index), step))
           r == point(curve, t)
       IN  gens' = [gens EXCEPT ![g] =
              IF IsBad(step)
              THEN [gen EXCEPT !.state = "ZeroDivisionError"]
              ELSE IF gen.point_index > gen.segments
              THEN [gen EXCEPT !.state = "done", !.step = step]
              ELSE IF r.status # "ok"
              THEN [gen EXCEPT !.state = r.status, !.step = step]
              ELSE [gen EXCEPT !.state = "suspended", !.step = step,
                               !.point_index = gen.point_index + 1,
                               !.ts = Append(gen.ts, t),
                               !.out = Append(gen.out, r.value)]]
    /\ UNCHANGED <<curve, call, text>>

NextApprox ==
    \/ NewBSpline
    \/ NewRBSpline
    \/ NewRBSplineU
    \/ Return
    \/ \E g \in GenIds : Approximate(g)
    \/ \E g \in GenIds : GenNext(g)

SpecApprox == Init /\ [][NextApprox]_vars

(***************************************************************************)
(* The TEXT entity (ezdxf/entities/text.py): alignment and the two         *)
(* alignment points.  The alignment table is const.TEXT_ALIGN_FLAGS,       *)
(* (halign, valign) by name, and TEXT_ALIGNMENT_BY_FLAGS its inverse.      *)
(***************************************************************************)
TEXT_ALIGN_FLAGS ==
    [a \in {"LEFT", "CENTER", "RIGHT", "BOTTOM_LEFT", "BOTTOM_CENTER",
             "BOTTOM_RIGHT", "MIDDLE_LEFT", "MIDDLE_CENTER", "MIDDLE_RIGHT",
             "TOP_LEFT", "TOP_CENTER", "TOP_RIGHT", "ALIGNED", "MIDDLE", "FIT"} |->
        CASE a = "LEFT" -> <<0, 0>>
          [] a = "CENTER" -> <<1, 0>>
          [] a = "RIGHT" -> <<2, 0>>
          [] a = "BOTTOM_LEFT" -> <<0, 1>>
          [] a = "BOTTOM_CENTER" -> <<1, 1>>
          [] a = "BOTTOM_RIGHT" -> <<2, 1>>
          [] a = "MIDDLE_LEFT" -> <<0, 2>>
          [] a = "MIDDLE_CENTER" -> <<1, 2>>
          [] a = "MIDDLE_RIGHT" -> <<2, 2>>
          [] a = "TOP_LEFT" -> <<0, 3>>
          [] a = "TOP_CENTER" -> <<1, 3>>
          [] a = "TOP_RIGHT" -> <<2, 3>>
          [] a = "ALIGNED" -> <<3, 0>>
          [] a = "MIDDLE" -> <<4, 0>>
          [] a = "FIT" -> <<5, 0>>]

TEXT_ALIGNMENT_BY_FLAGS_get(flags, default) ==
    IF \E a \in DOMAIN TEXT_ALIGN_FLAGS : TEXT_ALIGN_FLAGS[a] = flags
    THEN CHOOSE a \in DOMAIN TEXT_ALIGN_FLAGS : TEXT_ALIGN_FLAGS[a] = flags
    ELSE default

\* str.upper on the alignment names the model passes.
upper(a) ==
    CASE a = "aligned" -> "ALIGNED"
      [] a = "fit" -> "FIT"
      [] a = "top_left" -> "TOP_LEFT"
      [] OTHER -> a

\* The align argument left at None.
NoAlign == ""

get_align(t) ==
    LET halign == t.halign
        valign == IF t.halign > 2 THEN 0 ELSE t.valign
    IN  TEXT_ALIGNMENT_BY_FLAGS_get(<<halign, valign>>, "LEFT")

set_align(t, align) ==
    LET flags == TEXT_ALIGN_FLAGS[upper(align)]
    IN  [t EXCEPT !.halign = flags[1], !.valign = flags[2]]

\* set_pos: the alignment and insert are set before the second point is
\* checked, so they stay set when DXFValueError is raised.
set_pos(t, p1, p2, align) ==
    LET a == upper(IF align = NoAlign THEN get_align(t) ELSE align)
        t1 == [set_align(t, a) EXCEPT !.insert = p1]
    IN  IF a \in {"ALIGNED", "FIT"}
        THEN IF p2 = None
             THEN [status |-> "DXFValueError", text |-> t1]
             ELSE [status |-> "ok", text |-> [t1 EXCEPT !.align_point = p2]]
        ELSE [status |-> "ok", text |-> [t1 EXCEPT !.align_point = p1]]

get_pos(t) ==
    LET p1 == t.insert
        p2 == IF t.align_point = None THEN <<0, 0, 0>> ELSE t.align_point
        align == get_align(t)
    IN  IF align = "LEFT" THEN <<align, p1, None>>
        ELSE IF align \in {"FIT", "ALIGN"} THEN <<align, p1, p2>>
        ELSE <<align, p2, None>>

PointInputs == {<<1, 2, 0>>, <<3, 4, 0>>, <<0, 0, 5>>}

AlignInputs ==
    DOMAIN TEXT_ALIGN_FLAGS \cup {"aligned", "fit", "top_left", NoAlign}

CallSetPos ==
    /\ call = NoCall
    /\ \E p1 \in PointInputs, p2 \in PointInputs \cup {None},
          align \in AlignInputs :
          LET r == set_pos(text, p1, p2, align)
          IN  /\ text' = r.text
              /\ call' = [op |-> "set_pos", p1 |-> p1, p2 |-> p2,
                           align |-> align,
                           was |-> get_align(text),
                           status |-> r.status]
    /\ UNCHANGED <<curve, gens>>

CallGetPos ==
    /\ call = NoCall
    /\ call' = [op |-> "get_pos", result |-> get_pos(text)]
    /\ UNCHANGED <<curve, gens, text>>

NextText == CallSetPos \/ CallGetPos \/ Return

SpecText == Init /\ [][NextText]_vars

\* The alignment a set_pos call asked for: its align argument in upper
\* case, or the alignment the entity had when align was None.
AskedAlign == upper(IF call.align = NoAlign THEN call.was ELSE call.align)

\* C18 as stated: after set_pos(p1, p2, align) with align ALIGNED or FIT and
\* a second point, get_pos() returns (align, p1, p2); for LEFT it returns
\* (LEFT, p1, None); for every other alignment (align, p1, None); set_pos
\* with ALIGNED or FIT and p2 = None raises DXFValueError.
C18_PositionRoundTrip ==
    (call.op = "set_pos") =>
        /\ (AskedAlign \in {"ALIGNED", "FIT"} /\ call.p2 # None) =>
              /\ call.status = "ok"
              /\ get_pos(text) = <<AskedAlign, call.p1, call.p2>>
        /\ (AskedAlign \in {"ALIGNED", "FIT"} /\ call.p2 = None) =>
              call.status = "DXFValueError"
        /\ (AskedAlign \notin {"ALIGNED", "FIT"}) =>
              /\ call.status = "ok"
              /\ get_pos(text) = <<AskedAlign, call.p1, None>>

(***************************************************************************)
(* Properties of the knot builders (SpecKnots).                            *)
(***************************************************************************)

\* C1: for n >= k >= 2, knot_open_uniform(n, k) has length n+k+1, is
\* non-decreasing, is 0 at 1..k, grows by 1 for k < i < n+2, stays constant
\* from n+2 on, and has exactly k equal values at each end.
C1_OpenUniformShape ==
    (call.op = "knot_open_uniform" /\ call.n >= call.order) =>
        LET x == call.result
            n == call.n
            k == call.order
        IN  /\ Len0(x) = n + k + 1
            /\ \A i \in 1..(n + k) : RLeq(x[i - 1], x[i])
            /\ \A i \in 1..k : x[i] = R(0)
            /\ \A i \in (k + 1)..(n + 1) : x[i] = RAdd(x[i - 1], R(1))
            /\ \A i \in (n + 2)..(n + k) : x[i] = x[i - 1]
            /\ Cardinality({i \in 1..(n + k) : x[i] = x[1]}) = k
            /\ Cardinality({i \in 1..(n + k) : x[i] = x[n + k]}) = k

C1_Witness ==
    /\ call.op = "knot_open_uniform"
    /\ call.n = 5
    /\ call.order = 2
    /\ call.result = PyList(<<R(0), R(0), R(0), R(1), R(2), R(3), R(4), R(4)>>)

\* C2: for n >= k >= 2, knot_uniform(n, k) is the list [0, 0, 1, ..., n+k-1]
\* of length n+k+1: step 1 from index 1 on, first value doubled at index 0.
C2_UniformList ==
    (call.op = "knot_uniform" /\ call.n >= call.order) =>
        LET x == call.result
            n == call.n
            k == call.order
        IN  /\ Len0(x) = n + k + 1
            /\ x[0] = R(0)
            /\ x[1] = x[0]
            /\ \A i \in 2..(n + k) : x[i] = RAdd(x[i - 1], R(1))
            /\ x[n + k] = R(n + k - 1)

C2_Witness ==
    /\ call.op = "knot_uniform"
    /\ call.n = 5
    /\ call.order = 2
    /\ call.result = PyList(<<R(0), R(0), R(1), R(2), R(3), R(4), R(5), R(6)>>)

\* C3 as stated: for every valid (n, k) and i in 1..n+k,
\* knot_uniform(n, k)[i] = i - 2.
C3_UniformIndexMinus2 ==
    (call.op = "knot_uniform" /\ call.n >= call.order) =>
        \A i \in 1..(call.n + call.order) : call.result[i] = R(i - 2)

\* C3 amended: for every valid (n, k) and i in 1..n+k,
\* knot_uniform(n, k)[i] = i - 1.
C3_UniformIndexMinus1 ==
    (call.op = "knot_uniform" /\ call.n >= call.order) =>
        \A i \in 1..(call.n + call.order) : call.result[i] = R(i - 1)

C3_Witness ==
    /\ call.op = "knot_uniform"
    /\ call.n = 7
    /\ call.order = 3
    /\ call.result[1] = R(0)
    /\ call.result[10] = R(9)

\* C15 as stated: for every order k >= 2 and every 1-based control point
\* sequence of n >= k+1 points, knot_closed returns a non-decreasing list
\* with the indices 0..n+k, all values within [0, n-k+2], whose last k-1
\* entries equal n-k+2.
C15_ClosedShape ==
    (call.op = "knot_closed" /\ call.n >= call.order + 1) =>
        LET x == call.result
            n == call.n
            k == call.order
        IN  /\ call.status = "ok"
            /\ Len0(x) = n + k + 1
            /\ \A i \in 2..(n + k) : RLeq(x[i - 1], x[i])
            /\ \A i \in 1..(n + k) : RLeq(R(0), x[i]) /\ RLeq(x[i], R(n - k + 2))
            /\ \A i \in (n + 2)..(n + k) : x[i] = R(n - k + 2)

(***************************************************************************)
(* Properties of point and basis (Spec).                                   *)
(***************************************************************************)
\* The curve is one the data model allows: at least order control points
\* and, for a rational curve, a weight for every control point.
WellFormed(c) ==
    /\ c.cp_count >= c.order
    /\ IsRational(c.kind) => Len0(c.weights) = c.cp_count + 1

Zero3 == <<R(0), R(0), R(0)>>

\* The position a point call returned.
Position(c, v) == IF IsDerivative(c.kind) THEN v[1] ELSE v

\* The outcome of evaluating the curve at t itself, without the snap.
EvalAt(c, t) ==
    IF IsDerivative(c.kind)
    THEN LET r == dbasis(c, t)
         IN  IF r.status # "ok" THEN r
             ELSE Ok(<<Combine(c, r.value[1]), Combine(c, r.value[2]),
                       Combine(c, r.value[3])>>)
    ELSE LET r == basis(c, t)
         IN  IF r.status # "ok" THEN r ELSE Ok(Combine(c, r.value))

Outcome(r) == [status |-> r.status,
               value |-> IF r.status = "ok" THEN r.value ELSE <<>>]

CallOutcome == [status |-> call.status, value |-> call.value]

\* C4: an open-uniform curve with n >= k >= 2 control points passes through
\* its first control point at t = 0 and its last control point at t = max_t.
C4_EndpointInterpolation ==
    (/\ call.op = "point"
     /\ curve.kind \in {"BSpline", "DBSpline"}
     /\ curve.cp_count >= curve.order) =>
        /\ call.t = R(0) =>
              /\ call.status = "ok"
              /\ Position(curve, call.value) = curve.control_points[1]
        /\ call.t = max_t(curve) =>
              /\ call.status = "ok"
              /\ Position(curve, call.value) = curve.control_points[curve.cp_count]

C4_Witness ==
    /\ call.op = "point"
    /\ curve.kind = "BSpline"
    /\ curve.cp_count = 4
    /\ curve.order = 3
    /\ call.t = max_t(curve)
    /\ call.t = R(2)
    /\ call.value = <<R(0 - 1), R(4), R(12)>>

BasisSum == SumTo(call.value, 1, curve.cp_count)

BuilderBasisCall ==
    /\ call.op = "basis"
    /\ ~IsRational(curve.kind)
    /\ curve.cp_count >= curve.order

\* C5 as stated: for every builder knot vector and t with
\* knot[k-1] <= t < knot[n+1], basis(t)[1..n] sums to 1.
C5_PartitionFromKMinus1 ==
    (/\ BuilderBasisCall
     /\ RLeq(curve.knots[curve.order - 1], call.t)
     /\ RLess(call.t, curve.knots[curve.cp_count + 1])) =>
        (call.status = "ok" /\ BasisSum = R(1))

\* C5 amended: for every builder knot vector (open-uniform and uniform),
\* order k >= 2 and t with knot[k] <= t < knot[n+1], basis(t)[1..n] sums
\* to 1.
C5_PartitionFromK ==
    (/\ BuilderBasisCall
     /\ RLeq(curve.knots[curve.order], call.t)
     /\ RLess(call.t, curve.knots[curve.cp_count + 1])) =>
        (call.status = "ok" /\ BasisSum = R(1))

C5_Witness ==
    /\ call.op = "basis"
    /\ curve.kind = "BSplineU"
    /\ curve.cp_count = 4
    /\ curve.order = 3
    /\ call.t = <<5, 2>>
    /\ Cardinality({i \in 1..4 : call.value[i] # R(0)}) = 3
    /\ BasisSum = R(1)

\* C6: for every curve class and every t with 0 <= max_t - t < 5e-6, point
\* evaluates at max_t and returns what point(max_t) returns; a t with
\* max_t - t >= 5e-6 is evaluated as it is.
C6_BoundarySnap ==
    (call.op = "point") =>
        LET diff == RSub(max_t(curve), call.t)
        IN  /\ (RLeq(R(0), diff) /\ RLess(diff, SnapTol)) =>
                  /\ call.teval = max_t(curve)
                  /\ CallOutcome = Outcome(point(curve, max_t(curve)))
            /\ RLeq(SnapTol, diff) =>
                  /\ call.teval = call.t
                  /\ CallOutcome = Outcome(EvalAt(curve, call.t))

C6_Witness ==
    /\ call.op = "point"
    /\ curve.kind = "DBSplineU"
    /\ curve.cp_count >= curve.order
    /\ call.t = RSub(max_t(curve), <<1, 10000000>>)
    /\ call.teval = max_t(curve)
    /\ call.status = "ok"
    /\ call.value[1] # Zero3

OutsideDomain(c, t) == RLess(t, R(0)) \/ RLess(max_t(c), t)

\* C7 as stated: point(t) fails for every t outside [0, max_t] that is not
\* within 5e-6 of max_t (here for the curves the data model allows).
C7_DomainError ==
    (/\ call.op = "point"
     /\ WellFormed(curve)
     /\ OutsideDomain(curve, call.t)
     /\ ~(/\ RLess(RSub(max_t(curve), call.t), SnapTol)
          /\ RLess(RSub(call.t, max_t(curve)), SnapTol))) =>
        call.status # "ok"

\* C7 amended: point(t) of a BSpline or BSplineU raises no error for any t.
\* A t with max_t - t < 5e-6, which every t above max_t is, is replaced by
\* max_t and yields point(max_t); any other t, which every t < 0 is when
\* n >= k, is evaluated as given, and a t < 0 then yields the point (0, 0, 0).
C7_NoDomainCheck ==
    (call.op = "point" /\ curve.kind \in {"BSpline", "BSplineU"}) =>
        LET diff == RSub(max_t(curve), call.t)
        IN  /\ call.status = "ok"
            /\ RLess(max_t(curve), call.t) =>
                  /\ call.teval = max_t(curve)
                  /\ call.value = point(curve, max_t(curve)).value
            /\ (RLess(call.t, R(0)) /\ curve.cp_count >= curve.order) =>
                  RLeq(SnapTol, diff)
            /\ (RLess(call.t, R(0)) /\ RLeq(SnapTol, diff)) =>
                  /\ call.teval = call.t
                  /\ call.value = Zero3

C7_Witness ==
    /\ call.op = "point"
    /\ curve.kind = "BSpline"
    /\ curve.cp_count >= curve.order
    /\ call.t = <<0 - 1, 2>>
    /\ call.status = "ok"
    /\ call.value = Zero3

\* C9 as stated: no curve object with fewer control points than its order
\* can be obtained.
C9_CountAtLeastOrder ==
    (curve # NoCurve) => curve.cp_count >= curve.order

\* C10 as stated: constructing a rational curve of either class with
\* len(control_points) # len(weights) fails with a validation error, and
\* every constructed rational curve has one weight per control point.
C10_OneWeightPerPoint ==
    /\ (/\ call.op = "init"
        /\ IsRational(call.kind)
        /\ call.cp_count # call.weight_count) => call.status = "ValueError"
    /\ (curve # NoCurve /\ IsRational(curve.kind)) =>
          Len0(curve.weights) = curve.cp_count + 1

(***************************************************************************)
(* Properties of the rational curves (Spec).                               *)
(***************************************************************************)
\* C11: basis(t) of a rational curve with a weight for each of its n control
\* points returns r of n + 1 entries with r[i] = basis[i]*weight[i] / S for
\* i in 1..n, S the sum of basis[j]*weight[j] over 1..n; when S is zero it
\* returns n + 1 zeros; it raises no error.
C11_RationalBasis ==
    (/\ call.op = "basis"
     /\ IsRational(curve.kind)
     /\ Len0(curve.weights) > curve.cp_count) =>
        LET n == curve.cp_count
            nb == BSpline_basis(curve, call.t).value
            prod == [j \in 1..n |-> RMul(nb[j], curve.weights[j])]
            S == SumTo(prod, 1, n)
        IN  /\ call.status = "ok"
            /\ Len0(call.value) = n + 1
            /\ S = R(0) => \A i \in 0..n : call.value[i] = R(0)
            /\ S # R(0) =>
                  \A i \in 1..n : /\ ~IsBad(call.value[i])
                                  /\ RMul(call.value[i], S) = prod[i]

C11_Witness ==
    /\ call.op = "basis"
    /\ curve.kind = "RBSpline"
    /\ curve.cp_count = 3
    /\ curve.order = 2
    /\ curve.weights = PyList(<<R(0), R(0), R(0), R(0)>>)
    /\ call.t = R(1)
    /\ BSpline_basis(curve, call.t).value[2] = R(1)
    /\ call.status = "ok"
    /\ call.value = PyList(<<R(0), R(0), R(0), R(0)>>)

\* The rational curve has one weight per control point, all weights equal
\* and positive.
EqualPositiveWeights(c) ==
    /\ Len0(c.weights) = c.cp_count + 1
    /\ RLess(R(0), c.weights[1])
    /\ \A i \in 1..c.cp_count : c.weights[i] = c.weights[1]

\* The BSpline resp. BSplineU with the control points and order of the
\* rational curve c.
NonRational(c) ==
    [kind |-> IF c.kind = "RBSpline" THEN "BSpline" ELSE "BSplineU",
     control_points |-> c.control_points, cp_count |-> c.cp_count,
     order |-> c.order, nplusc |-> c.nplusc,
     knots |-> BSpline_knots(IF c.kind = "RBSpline" THEN "BSpline" ELSE "BSplineU",
                             c.cp_count, c.order)]

ReductionCall ==
    /\ call.op = "point"
    /\ IsRational(curve.kind)
    /\ curve.cp_count >= curve.order
    /\ EqualPositiveWeights(curve)
    /\ RLeq(R(0), call.t)
    /\ RLeq(call.t, max_t(curve))

\* C12 as stated: for RBSpline and RBSplineU with equal positive weights and
\* every t in [0, max_t], point(t) equals point(t) of the non-rational curve.
C12_ReductionOnZeroToMax ==
    ReductionCall =>
        /\ call.status = "ok"
        /\ call.value = point(NonRational(curve), call.t).value

\* C12 amended: for RBSpline and RBSplineU with n >= k control points and n
\* equal positive weights, point(t) equals point(t) of the non-rational
\* curve for every t in [0, max_t] (RBSpline) resp. [order - 1, max_t]
\* (RBSplineU).
C12_ReductionOnDomain ==
    (/\ ReductionCall
     /\ IsUniform(curve.kind) => RLeq(R(curve.order - 1), call.t)) =>
        /\ call.status = "ok"
        /\ call.value = point(NonRational(curve), call.t).value

C12_Witness ==
    /\ ReductionCall
    /\ curve.kind = "RBSplineU"
    /\ curve.cp_count = 4
    /\ curve.order = 3
    /\ curve.weights[1] = R(2)
    /\ call.t = <<5, 2>>
    /\ call.status = "ok"
    /\ call.value # Zero3
    /\ call.value = point(NonRational(curve), call.t).value

(***************************************************************************)
(* Properties of the basis vector at t = max_t (Spec).                     *)
(***************************************************************************)
\* The basis values a basis or dbasis call returned.
BasisValues == IF call.op = "dbasis" THEN call.value[1] ELSE call.value

MaxTBasisCall ==
    /\ call.op \in {"basis", "dbasis"}
    /\ ~IsRational(curve.kind)
    /\ curve.cp_count >= curve.order
    /\ call.t = max_t(curve)

RECURSIVE Factorial(_)
Factorial(m) == IF m <= 1 THEN 1 ELSE m * Factorial(m - 1)

\* C14 as stated: whenever t = max_t the basis vector returned has
\* basis[n] = 1.0 and, for BSplineU and DBSplineU, basis[n+1] = 0.0, for
\* every order k >= 2.
C14_FixUpEveryVariant ==
    MaxTBasisCall =>
        /\ call.status = "ok"
        /\ BasisValues[curve.cp_count] = R(1)
        /\ IsUniform(curve.kind) => BasisValues[curve.cp_count + 1] = R(0)

\* C14 amended: whenever t = max_t and n >= k, basis(t) and the value
\* vector of dbasis(t) of the open variant (BSpline, DBSpline) have
\* basis[n] = 1.0 for every order k >= 2; those of the uniform variant
\* (BSplineU, DBSplineU) have basis[n] = 1/(k-1)!, which is 1.0 only for
\* k = 2, and basis[n+1] = 0.0 except in basis(t) for k = 2, which leaves
\* 1.0 there.
C14_FixUpByVariant ==
    MaxTBasisCall =>
        LET n == curve.cp_count
            k == curve.order
        IN  /\ call.status = "ok"
            /\ ~IsUniform(curve.kind) => BasisValues[n] = R(1)
            /\ IsUniform(curve.kind) =>
                  /\ BasisValues[n] = Norm(1, Factorial(k - 1))
                  /\ BasisValues[n + 1] =
                        IF call.op = "basis" /\ k = 2 THEN R(1) ELSE R(0)

C14_Witness ==
    /\ MaxTBasisCall
    /\ call.op = "dbasis"
    /\ curve.kind = "DBSplineU"
    /\ curve.cp_count = 4
    /\ curve.order = 3
    /\ call.t = R(4)
    /\ call.value[1][3] = <<1, 2>>
    /\ call.value[1][4] = <<1, 2>>
    /\ call.value[1][5] = R(0)

(***************************************************************************)
(* Properties of the basis vector and the point sum (Spec).                *)
(***************************************************************************)
\* The sum over i in 1..n of nb[i] * control_point[i], on each axis.
WeightedSum(c, nb) ==
    [axis \in 1..3 |->
        SumTo([i \in 1..c.cp_count |-> RMul(nb[i], c.control_points[i][axis])],
              1, c.cp_count)]

PlainBasisCall ==
    /\ call.op = "basis"
    /\ ~IsRational(curve.kind)
    /\ curve.cp_count >= curve.order

PlainPointCall ==
    /\ call.op = "point"
    /\ curve.kind \in {"BSpline", "BSplineU"}
    /\ curve.cp_count >= curve.order

\* C20 as stated: basis(t) of a non-rational curve returns exactly n+1
\* entries, and point(t) is the sum over i in 1..n of
\* basis(t)[i] * control_point[i] on each axis (compared at the parameters
\* basis is called with: the grid and, for order 2, those next to max_t).
C20_BasisOfNPlus1 ==
    /\ PlainBasisCall =>
          /\ call.status = "ok"
          /\ Len0(call.value) = curve.cp_count + 1
    /\ (PlainPointCall /\ call.t \in BasisParams(curve)) =>
          /\ call.status = "ok"
          /\ call.value = WeightedSum(curve, basis(curve, call.t).value)

\* C20 amended: basis(t) of a non-rational curve returns exactly n+k
\* entries (index 0 unused, entries 1..n one per control point), and
\* point(t) of a BSpline or BSplineU is the sum over i in 1..n of
\* basis(t')[i] * control_point[i] on each axis, where t' is max_t when
\* max_t - t < 5e-6 and t otherwise.
C20_BasisOfNPlusK ==
    /\ PlainBasisCall =>
          /\ call.status = "ok"
          /\ Len0(call.value) = curve.cp_count + curve.order
    /\ PlainPointCall =>
          LET t1 == IF RLess(RSub(max_t(curve), call.t), SnapTol)
                    THEN max_t(curve) ELSE call.t
          IN  /\ call.status = "ok"
              /\ call.value = WeightedSum(curve, basis(curve, t1).value)

C20_Witness ==
    /\ PlainPointCall
    /\ curve.kind = "BSplineU"
    /\ curve.cp_count = 4
    /\ curve.order = 3
    /\ call.t = RSub(R(4), <<1, 250000>>)
    /\ call.status = "ok"
    /\ Len0(basis(curve, R(4)).value) = 7
    /\ call.value = <<R(1), <<13, 2>>, R(6)>>

(***************************************************************************)
(* Properties of the derivatives (Spec).                                   *)
(***************************************************************************)
\* The step of the central difference.
DeltaT == <<1, 8>>

RAbs(a) == IF a[1] < 0 THEN RNeg(a) ELSE a

\* First parameter of the sampled domain: 0, or order - 1 for the uniform
\* classes.
DomainStart(c) == IF IsUniform(c.kind) THEN R(c.order - 1) ELSE R(0)

\* The position of the derivative curve at a parameter below the snap.
PositionAt(c, t) == Combine(c, dbasis(c, t).value[1])

CentralDifference(c, t, axis) ==
    RDiv(RSub(PositionAt(c, RAdd(t, DeltaT))[axis],
              PositionAt(c, RSub(t, DeltaT))[axis]),
         RMul(R(2), DeltaT))

\* a and b lie in one knot span [knots[i], knots[i+1]).
SameSpan(c, a, b) ==
    \E i \in 1..(c.nplusc - 1) : RLeq(c.knots[i], a) /\ RLess(b, c.knots[i + 1])

\* The largest step between consecutive control points on an axis.
MaxStep(c, axis) ==
    LET steps == { RAbs(RSub(c.control_points[i + 1][axis],
                             c.control_points[i][axis])) :
                      i \in 1..(c.cp_count - 1) }
    IN  IF steps = {} THEN R(0)
        ELSE CHOOSE m \in steps : \A x \in steps : RLeq(x, m)

InteriorPointCall ==
    /\ call.op = "point"
    /\ IsDerivative(curve.kind)
    /\ curve.cp_count >= curve.order
    /\ RLeq(DomainStart(curve), RSub(call.t, DeltaT))
    /\ RLeq(RAdd(call.t, DeltaT), RSub(max_t(curve), DeltaT))

\* C16: for a derivative curve and interior t, the central difference
\* (point(t+dt) - point(t-dt)) / (2*dt) of the position, dt = 1/8, equals
\* d1 of point(t) when the order is at most 3 and t-dt, t+dt lie in one knot
\* span; otherwise it differs from d1 on each axis by at most the largest
\* control point step of that axis for order 2 (where d1 jumps at a knot)
\* and by at most (k-1)*(k-2)*dt times that step for an order k >= 3.
C16_DerivativeConsistency ==
    InteriorPointCall =>
        /\ call.status = "ok"
        /\ \A axis \in 1..3 :
              LET cd == CentralDifference(curve, call.t, axis)
                  d1 == call.value[2][axis]
                  k == curve.order
                  tol == IF k = 2 THEN MaxStep(curve, axis)
                         ELSE RMul(RMul(R((k - 1) * (k - 2)), DeltaT),
                                   MaxStep(curve, axis))
              IN  /\ RLeq(RAbs(RSub(cd, d1)), tol)
                  /\ (/\ curve.order <= 3
                      /\ SameSpan(curve, RSub(call.t, DeltaT),
                                   RAdd(call.t, DeltaT))) => cd = d1

C16_Witness ==
    /\ InteriorPointCall
    /\ curve.kind = "DBSpline"
    /\ curve.cp_count = 4
    /\ curve.order = 3
    /\ call.t = <<1, 2>>
    /\ call.status = "ok"
    /\ call.value[2] # Zero3
    /\ call.value[2][1] = CentralDifference(curve, call.t, 1)

\* The BSpline resp. BSplineU built from the control points and order of
\* the derivative curve c.
PlainOf(c) ==
    LET kind == IF c.kind = "DBSpline" THEN "BSpline" ELSE "BSplineU"
    IN  [kind |-> kind, control_points |-> c.control_points,
         cp_count |-> c.cp_count, order |-> c.order, nplusc |-> c.nplusc,
         knots |-> BSpline_knots(kind, c.cp_count, c.order)]

SampledDomainCall ==
    /\ call.op = "point"
    /\ IsDerivative(curve.kind)
    /\ curve.cp_count >= curve.order
    /\ RLeq(DomainStart(curve), call.t)
    /\ RLeq(call.t, max_t(curve))

\* C21: for a derivative curve (DBSpline, DBSplineU) with n >= k control
\* points and every t of its sampled domain, t = max_t included ([0, max_t]
\* for DBSpline, [order - 1, n] for DBSplineU), point(t) raises nothing and
\* its position equals point(t) of the plain curve (BSpline resp. BSplineU)
\* built from the same control points and order.
C21_SamePosition ==
    SampledDomainCall =>
        LET p == BSpline_point(PlainOf(curve), call.t)
        IN  /\ call.status = "ok"
            /\ p.status = "ok"
            /\ call.value[1] = p.value

C21_Witness ==
    /\ SampledDomainCall
    /\ curve.kind = "DBSpline"
    /\ curve.cp_count = 4
    /\ curve.order = 3
    /\ call.t = max_t(curve)
    /\ create_nbasis2(curve, call.t) # create_nbasis(curve, call.t)
    /\ call.status = "ok"
    /\ call.value[1] = <<R(0 - 1), R(4), R(12)>>
    /\ call.value[1] = BSpline_point(PlainOf(curve), call.t).value

(***************************************************************************)
(* Properties of the snap above max_t (Spec).                              *)
(***************************************************************************)
\* C22: for every curve the data model allows and every t with
\* max_t - t < 5e-6, however far t lies above max_t, point(t) evaluates at
\* max_t, raises nothing and returns what point(max_t) returns; for the open
\* variant (BSpline, DBSpline, and RBSpline when the last weight is not
\* zero) the position returned is the last control point.
C22_OneSidedSnap ==
    (/\ call.op = "point"
     /\ WellFormed(curve)
     /\ RLess(RSub(max_t(curve), call.t), SnapTol)) =>
        LET n == curve.cp_count
            atmax == point(curve, max_t(curve))
        IN  /\ call.teval = max_t(curve)
            /\ call.status = "ok"
            /\ atmax.status = "ok"
            /\ call.value = atmax.value
            /\ (\/ curve.kind \in {"BSpline", "DBSpline"}
                \/ (curve.kind = "RBSpline" /\ curve.weights[n] # R(0))) =>
                  Position(curve, call.value) = curve.control_points[n]

C22_Witness ==
    /\ call.op = "point"
    /\ curve.kind = "DBSpline"
    /\ curve.cp_count = 4
    /\ curve.order = 3
    /\ call.t = RAdd(max_t(curve), R(1000))
    /\ call.t = R(1002)
    /\ call.teval = R(2)
    /\ call.status = "ok"
    /\ call.value[1] = <<R(0 - 1), R(4), R(12)>>

(***************************************************************************)
(* Properties of the basis recursion over any knot list (SpecCustom).      *)
(***************************************************************************)
NonDecreasing(knots) ==
    \A i \in 2..(Len0(knots) - 1) : RLeq(knots[i - 1], knots[i])

\* C13 as stated: for every non-decreasing knot vector, repeated knots
\* included, builder-generated or passed by the caller, and every t, neither
\* basis(t) nor dbasis(t) divides by a zero-width knot span: no exception
\* arises (here for curves with n >= k control points).
C13_NoZeroWidthDivision ==
    (/\ call.op \in {"basis", "dbasis"}
     /\ curve.cp_count >= curve.order
     /\ NonDecreasing(curve.knots)) => call.status = "ok"

\* One term of the Cox-de Boor recursion: 0 over a zero-width span.
CoxDeBoorTerm(num, b, width) ==
    IF width = R(0) THEN R(0) ELSE RDiv(RMul(num, b), width)

\* The basis functions N[i, k](t), i in 1..nplusc-k, each order computed as
\* a whole from the functions of the order below.
RECURSIVE CoxDeBoor(_, _, _)
CoxDeBoor(c, t, k) ==
    IF k = 1
    THEN [i \in 1..(c.nplusc - 1) |->
             IF RLeq(c.knots[i], t) /\ RLess(t, c.knots[i + 1])
             THEN R(1) ELSE R(0)]
    ELSE LET below == CoxDeBoor(c, t, k - 1)
         IN  [i \in 1..(c.nplusc - k) |->
                 RAdd(CoxDeBoorTerm(RSub(t, c.knots[i]), below[i],
                                    RSub(c.knots[i + k - 1], c.knots[i])),
                      CoxDeBoorTerm(RSub(c.knots[i + k], t), below[i + 1],
                                    RSub(c.knots[i + k], c.knots[i + 1])))]

\* C19: for every non-decreasing knot vector, order k and t below the last
\* knot, basis(t)[i] of a non-rational curve equals, for i in 1..n, the
\* Cox-de Boor function N[i, k](t) computed level by level from the previous
\* order, with 0 for a term over a zero-width span.
C19_InPlaceCoxDeBoor ==
    (/\ call.op = "basis"
     /\ NonDecreasing(curve.knots)
     /\ RLess(call.t, curve.knots[curve.nplusc])) =>
        /\ call.status = "ok"
        /\ \A i \in 1..curve.cp_count :
              call.value[i] = CoxDeBoor(curve, call.t, curve.order)[i]

C19_Witness ==
    /\ call.op = "basis"
    /\ curve.kind = "BSpline"
    /\ curve.cp_count = 3
    /\ curve.order = 3
    /\ curve.knots = PyList(<<R(0), R(0), R(0), R(1), R(1), R(2), R(2)>>)
    /\ call.t = <<3, 2>>
    /\ call.status = "ok"
    /\ call.value[2] = <<1, 4>>
    /\ call.value[3] = <<1, 2>>

(***************************************************************************)
(* Properties of approximate (SpecApprox).                                 *)
(***************************************************************************)
ApproxEnd(c) == IF IsUniform(c.kind) THEN R(c.cp_count) ELSE max_t(c)

\* C8: approximate(segment_count) yields the points point(start + i * step)
\* for i = 0..segment_count at the uniform step (end - start) / segment_count,
\* from start = 0 to max_t for the open classes and from order - 1 to
\* control_point_count for the uniform classes; it ends after exactly
\* segment_count + 1 points, and a second generator with the same
\* segment_count yields the same sequence.  A BSpline or BSplineU generator,
\* and a generator of any well-formed curve, never ends with an exception.
\* (Each point is compared with point() in the state right after its yield.)
C8_Approximate ==
    \A g \in GenIds :
        LET gen == gens[g]
            start == IF IsUniform(curve.kind) THEN R(curve.order - 1) ELSE R(0)
            width == RSub(ApproxEnd(curve), start)
        IN  (gen.state # "none") =>
            /\ Len(gen.out) = Len(gen.ts)
            /\ Len(gen.out) <= gen.segments + 1
            /\ \A i \in 1..Len(gen.ts) :
                  gen.ts[i] = RAdd(start, RDiv(RMul(R(i - 1), width),
                                               R(gen.segments)))
            /\ gen.state = "suspended" =>
                  gen.out[Len(gen.out)] = point(curve, gen.ts[Len(gen.ts)]).value
            /\ gen.state = "done" =>
                  /\ Len(gen.out) = gen.segments + 1
                  /\ gen.ts[gen.segments + 1] = ApproxEnd(curve)
            /\ (curve.kind \in {"BSpline", "BSplineU"} \/ WellFormed(curve)) =>
                  gen.state \in {"new", "suspended", "done"}
            /\ \A h \in GenIds :
                  (/\ gens[h].state = "done"
                   /\ gen.state = "done"
                   /\ gens[h].segments = gen.segments) => gens[h].out = gen.out

C8_Witness ==
    /\ curve.kind = "BSplineU"
    /\ curve.cp_count = 4
    /\ curve.order = 3
    /\ gens["g1"].state = "done"
    /\ gens["g2"].state = "done"
    /\ gens["g1"].segments = 2
    /\ gens["g2"].segments = 2
    /\ gens["g1"].ts = <<R(2), R(3), R(4)>>
    /\ Len(gens["g2"].out) = 3

\* What a generator of curve c with the given segment count yields as its
\* element number index (from 0) when it runs alone.
AloneElement(c, segments, index) ==
    point(c, RAdd(approximate_base(c),
                  RMul(R(index), step_size(c, segments)))).value

\* C17: no step of an evaluation changes the curve (control points, knots,
\* order, weights), and with two approximate() generators over one curve
\* advanced in any interleaving, every step of a generator leaves what it
\* has yielded so far in place and appends at most the element the generator
\* yields at that position when run alone; a generator that has ended stays
\* as it is.
C17_Stateless ==
    [][/\ (curve # NoCurve) => (curve' = curve)
       /\ \A g \in GenIds :
             LET before == gens[g]
                 after == gens'[g]
             IN  /\ before.state \in {"new", "suspended"} =>
                       /\ after.state # "none"
                       /\ after.segments = before.segments
                       /\ Len(after.out) \in {Len(before.out), Len(before.out) + 1}
                       /\ SubSeq(after.out, 1, Len(before.out)) = before.out
                       /\ Len(after.out) = Len(before.out) + 1 =>
                             after.out[Len(after.out)] =
                                AloneElement(curve, before.segments, Len(before.out))
                       /\ after.state = "done" =>
                             Len(after.out) = before.segments + 1
                 /\ before.state \notin {"none", "new", "suspended"} =>
                       after = before]_vars

C17_Witness ==
    /\ curve.kind = "DBSpline"
    /\ curve.cp_count = 4
    /\ curve.order = 3
    /\ gens["g1"].state = "done"
    /\ gens["g1"].segments = 2
    /\ Len(gens["g1"].out) = 3
    /\ gens["g2"].state = "suspended"
    /\ gens["g2"].segments = 1
    /\ gens["g2"].out = <<AloneElement(curve, 1, 0)>>

====
